---- MODULE Spec2Model ----
(***************************************************************************)
(* The /ipfs/id/1.0.0 upgrade of libp2p-identify (src/lib.rs).             *)
(*                                                                         *)
(* One connection is modelled: an ordered reliable byte stream with a      *)
(* listening end and a dialing end.  Each end is either an instance of     *)
(* IdentifyProtocol::upgrade or an arbitrary peer that writes bytes of its *)
(* own choice.  Bytes are naturals in 0..255, a String is the sequence of  *)
(* its UTF-8 bytes, and a Multiaddr is a sequence of <<protocol, value>>   *)
(* segments.                                                               *)
(***************************************************************************)
EXTENDS Integers, Sequences, FiniteSets, TLC

(***************************************************************************)
(* Bounds of the model.                                                    *)
(***************************************************************************)
\* Longest byte string an arbitrary peer sends, for the enumerated strings.
MaxRawLen == 3
\* Most bytes an arbitrary peer sends towards a Listener.
MaxInbound == 2
\* A socket read or write moves 1..MaxChunk bytes, or all the bytes there are.
MaxChunk == 2

\* The longest of the short payloads framed on their own.
MaxPayloadLen == 2

(***************************************************************************)
(* Small helpers on sequences.                                             *)
(***************************************************************************)
Min(a, b) == IF a < b THEN a ELSE b

Take(s, k) == SubSeq(s, 1, k)

Drop(s, k) == SubSeq(s, k + 1, Len(s))

RECURSIVE Concat(_)
Concat(ss) == IF ss = <<>> THEN <<>> ELSE Head(ss) \o Concat(Tail(ss))

RECURSIVE SeqsUpTo(_, _)
SeqsUpTo(S, n) ==
    IF n = 0 THEN {<<>>}
    ELSE LET shorter == SeqsUpTo(S, n - 1)
         IN  shorter \cup {Append(s, b) : s \in {t \in shorter : Len(t) = n - 1}, b \in S}

(***************************************************************************)
(* Results of an upgrade: Result<Option<IdentifyInfo>, IoError>, or still  *)
(* pending.  An IoError is its ErrorKind and the error it wraps.           *)
(***************************************************************************)
NoInfo == [public_key |-> <<>>, protocol_version |-> <<>>, agent_version |-> <<>>,
           listen_addrs |-> <<>>, observed_addr |-> <<>>, protocols |-> <<>>]

NoErr == [kind |-> "", cause |-> ""]

IoError(kind, cause) == [kind |-> kind, cause |-> cause]

Pending == [tag |-> "Pending", info |-> NoInfo, err |-> NoErr]

OkNone == [tag |-> "None", info |-> NoInfo, err |-> NoErr]

OkSome(info) == [tag |-> "Some", info |-> info, err |-> NoErr]

Err(e) == [tag |-> "Err", info |-> NoInfo, err |-> e]

(***************************************************************************)
(* Frame codec (VarintCodec under tokio_io's Framed): a frame is the       *)
(* unsigned base-128 varint of the payload's length, then the payload.     *)
(***************************************************************************)
\* A length no buffer of the model reaches: a varint of five bytes or more
\* saturates here.
Huge == 16384 * 16384

MaxVarintBytes == 10

\* EncodeVarint keeping a whole byte of the number in a byte of the varint.
EncodeVarint_WideByte(n) ==
    IF n < 256 THEN <<n>>
    ELSE <<128 + (n % 128), n \div 128>>

RECURSIVE EncodeVarint(_)
EncodeVarint(n) ==
    IF n < 128 THEN <<n>>
    ELSE <<128 + (n % 128)>> \o EncodeVarint(n \div 128)

Pow128(i) == CASE i = 0 -> 1 [] i = 1 -> 128 [] i = 2 -> 16384 [] i = 3 -> 2097152
               [] OTHER -> Huge

\* The varint starting at buf[from]: "ok" with its value and the index after
\* it, "need" when buf ends inside it, "err" when it is too long.
RECURSIVE VarintAt(_, _, _, _)
VarintAt(buf, from, i, acc) ==
    IF i >= MaxVarintBytes THEN [st |-> "err", val |-> 0, next |-> from]
    ELSE IF from + i > Len(buf) THEN [st |-> "need", val |-> 0, next |-> from]
    ELSE LET b == buf[from + i]
             term == IF i <= 3 THEN (b % 128) * Pow128(i)
                     ELSE IF b % 128 > 0 THEN Huge ELSE 0
             sum == Min(Huge, acc + term)
         IN  IF b < 128 THEN [st |-> "ok", val |-> sum, next |-> from + i + 1]
             ELSE VarintAt(buf, from, i + 1, sum)

DecodeVarint(buf, from) == VarintAt(buf, from, 0, 0)

EncodeFrame(payload) == EncodeVarint(Len(payload)) \o payload

\* Decoder::decode on the read buffer: one whole frame and the bytes after
\* it, or "need" (no whole frame yet), or "err".
FrameAfter(buf, v) ==
    IF v.st = "err" THEN [st |-> "err", payload |-> <<>>, rest |-> buf]
    ELSE IF v.st = "need" \/ Len(buf) - (v.next - 1) < v.val
         THEN [st |-> "need", payload |-> <<>>, rest |-> buf]
    ELSE [st |-> "frame",
          payload |-> SubSeq(buf, v.next, v.next + v.val - 1),
          rest |-> Drop(buf, v.next + v.val - 1)]

DecodeFrame(buf) == FrameAfter(buf, DecodeVarint(buf, 1))

FrameError == IoError("Other", "FrameCodec")

\* What the framed stream yields once the read buffer holds buf and no whole
\* frame: at end of stream, None on an empty buffer and an error inside a
\* frame.
DecodeEof(buf) ==
    IF buf = <<>> THEN [st |-> "none", payload |-> <<>>, err |-> NoErr]
    ELSE [st |-> "err", payload |-> <<>>, err |-> FrameError]

(***************************************************************************)
(* String::from_utf8: whether a byte string is well-formed UTF-8.          *)
(***************************************************************************)
IsCont(b) == b \in 128..191

RECURSIVE Utf8From(_, _)
Utf8From(b, i) ==
    IF i > Len(b) THEN TRUE
    ELSE LET c == b[i]
             has(n) == i + n <= Len(b)
         IN  IF c < 128 THEN Utf8From(b, i + 1)
             ELSE IF c \in 194..223
                  THEN has(1) /\ IsCont(b[i + 1]) /\ Utf8From(b, i + 2)
             ELSE IF c \in 224..239
                  THEN /\ has(2)
                       /\ b[i + 1] \in (IF c = 224 THEN 160..191
                                        ELSE IF c = 237 THEN 128..159 ELSE 128..191)
                       /\ IsCont(b[i + 2])
                       /\ Utf8From(b, i + 3)
             ELSE IF c \in 240..244
                  THEN /\ has(3)
                       /\ b[i + 1] \in (IF c = 240 THEN 144..191
                                        ELSE IF c = 244 THEN 128..143 ELSE 128..191)
                       /\ IsCont(b[i + 2])
                       /\ IsCont(b[i + 3])
                       /\ Utf8From(b, i + 4)
             ELSE FALSE

IsUtf8(b) == Utf8From(b, 1)

(***************************************************************************)
(* Address codec (Multiaddr): to_string renders every segment as           *)
(* "/<protocol>/<value>"; parsing splits on "/" and reads the segments     *)
(* back.  The protocols of the model are ip4 (four octets) and tcp (a      *)
(* 16-bit port).                                                           *)
(***************************************************************************)
Slash == 47

Dot == 46

Digit0 == 48

NameIp4 == <<105, 112, 52>>

NameTcp == <<116, 99, 112>>

RECURSIVE Dec(_)
Dec(n) == IF n < 10 THEN <<Digit0 + n>> ELSE Dec(n \div 10) \o <<Digit0 + (n % 10)>>

SegmentToString(seg) ==
    IF seg[1] = "ip4"
    THEN <<Slash>> \o NameIp4 \o <<Slash>> \o Dec(seg[2][1]) \o <<Dot>> \o Dec(seg[2][2])
         \o <<Dot>> \o Dec(seg[2][3]) \o <<Dot>> \o Dec(seg[2][4])
    ELSE <<Slash>> \o NameTcp \o <<Slash>> \o Dec(seg[2][1])

AddrToString(addr) == Concat([i \in 1..Len(addr) |-> SegmentToString(addr[i])])

RECURSIVE SplitOn(_, _)
SplitOn(s, sep) ==
    IF \A i \in 1..Len(s) : s[i] # sep THEN <<s>>
    ELSE LET i == CHOOSE i \in 1..Len(s) : s[i] = sep /\ \A j \in 1..(i - 1) : s[j] # sep
         IN  <<Take(s, i - 1)>> \o SplitOn(Drop(s, i), sep)

IsDigits(d) == d # <<>> /\ \A i \in 1..Len(d) : d[i] \in Digit0..(Digit0 + 9)

\* The value of a digit string, saturating above every value a segment takes.
RECURSIVE DecValue(_)
DecValue(d) ==
    IF d = <<>> THEN 0
    ELSE Min(100000, DecValue(Take(d, Len(d) - 1)) * 10 + (d[Len(d)] - Digit0))

\* A number of at most maxLen digits and at most max, or -1.
NumberOr(d, maxLen, max, value) ==
    IF IsDigits(d) /\ Len(d) <= maxLen /\ value <= max THEN value ELSE -1

ParseNumber(d, maxLen, max) == NumberOr(d, maxLen, max, DecValue(d))

NoSegment == <<"", <<>>>>

SegmentOf(name, vals) ==
    IF \A i \in 1..Len(vals) : vals[i] >= 0
    THEN [ok |-> TRUE, seg |-> <<name, vals>>]
    ELSE [ok |-> FALSE, seg |-> NoSegment]

Ip4Segment(parts) ==
    IF Len(parts) = 4
    THEN SegmentOf("ip4", [i \in 1..4 |-> ParseNumber(parts[i], 3, 255)])
    ELSE [ok |-> FALSE, seg |-> NoSegment]

ParseSegment(name, value) ==
    IF name = NameTcp THEN SegmentOf("tcp", <<ParseNumber(value, 5, 65535)>>)
    ELSE IF name = NameIp4 THEN Ip4Segment(SplitOn(value, Dot))
    ELSE [ok |-> FALSE, seg |-> NoSegment]

JoinSegments(seg, rest) ==
    IF seg.ok /\ rest.ok
    THEN [ok |-> TRUE, addr |-> <<seg.seg>> \o rest.addr]
    ELSE [ok |-> FALSE, addr |-> <<>>]

RECURSIVE ParseSegments(_)
ParseSegments(parts) ==
    IF parts = <<>> THEN [ok |-> TRUE, addr |-> <<>>]
    ELSE IF Len(parts) < 2 THEN [ok |-> FALSE, addr |-> <<>>]
    ELSE JoinSegments(ParseSegment(parts[1], parts[2]), ParseSegments(Drop(parts, 2)))

\* str::parse::<Multiaddr>
ParseAddr(s) ==
    IF s = <<>> THEN [ok |-> TRUE, addr |-> <<>>]
    ELSE IF s[1] # Slash THEN [ok |-> FALSE, addr |-> <<>>]
    ELSE ParseSegments(SplitOn(Tail(s), Slash))

(***************************************************************************)
(* structs_proto::Identify and its wire format: every field is a tag       *)
(* (field number * 8 + wire type), and for the length-delimited fields of  *)
(* Identify a varint length and the value.  An optional field is a         *)
(* sequence of zero or one value.                                          *)
(***************************************************************************)
FieldPublicKey == 1

FieldListenAddrs == 2

FieldProtocols == 3

FieldObservedAddr == 4

FieldProtocolVersion == 5

FieldAgentVersion == 6

WireLengthDelimited == 2

NewIdentify == [protocolVersion |-> <<>>, agentVersion |-> <<>>, publicKey |-> <<>>,
                listenAddrs |-> <<>>, observedAddr |-> <<>>, protocols |-> <<>>]

\* take_<field> of an optional field: its value, or the empty default.
TakeField(opt) == IF opt = <<>> THEN <<>> ELSE opt[1]

EncodeField(field, value) ==
    EncodeVarint(field * 8 + WireLengthDelimited) \o EncodeVarint(Len(value)) \o value

EncodeFields(field, values) ==
    Concat([i \in 1..Len(values) |-> EncodeField(field, values[i])])

\* Message::write_to_bytes: the fields that are set, in the order the schema
\* declares them.
WriteToBytes(m) ==
    EncodeFields(FieldProtocolVersion, m.protocolVersion)
    \o EncodeFields(FieldAgentVersion, m.agentVersion)
    \o EncodeFields(FieldPublicKey, m.publicKey)
    \o EncodeFields(FieldListenAddrs, m.listenAddrs)
    \o EncodeFields(FieldObservedAddr, m.observedAddr)
    \o EncodeFields(FieldProtocols, m.protocols)

SetField(m, field, v) ==
    CASE field = FieldPublicKey -> [m EXCEPT !.publicKey = <<v>>]
      [] field = FieldListenAddrs -> [m EXCEPT !.listenAddrs = Append(@, v)]
      [] field = FieldProtocols -> [m EXCEPT !.protocols = Append(@, v)]
      [] field = FieldObservedAddr -> [m EXCEPT !.observedAddr = <<v>>]
      [] field = FieldProtocolVersion -> [m EXCEPT !.protocolVersion = <<v>>]
      [] field = FieldAgentVersion -> [m EXCEPT !.agentVersion = <<v>>]

StringFields == {FieldProtocols, FieldProtocolVersion, FieldAgentVersion}

ParseFailed == [ok |-> FALSE, msg |-> NewIdentify]

\* The index after the value of a field of wire type wt whose value starts
\* at pos, v being the varint at pos; 0 when the value is cut or the wire
\* type is none.
AfterValue(buf, pos, wt, v) ==
    CASE wt = 0 -> IF v.st = "ok" THEN v.next ELSE 0
      [] wt = 1 -> IF pos + 7 <= Len(buf) THEN pos + 8 ELSE 0
      [] wt = WireLengthDelimited ->
             IF v.st = "ok" /\ v.next - 1 + v.val <= Len(buf) THEN v.next + v.val ELSE 0
      [] wt = 5 -> IF pos + 3 <= Len(buf) THEN pos + 4 ELSE 0
      [] OTHER -> 0

\* The message after one field, whose tag t has been read: [ok, msg, next].
ReadField(buf, m, t, l) ==
    LET field == t.val \div 8
        wt == t.val % 8
        after == AfterValue(buf, t.next, wt, l)
        v == SubSeq(buf, l.next, after - 1)
    IN  IF t.st # "ok" \/ field = 0 \/ after = 0 THEN [ok |-> FALSE, msg |-> m, next |-> 0]
        ELSE IF field \notin FieldPublicKey..FieldAgentVersion
             THEN [ok |-> TRUE, msg |-> m, next |-> after]
        ELSE IF wt # WireLengthDelimited \/ (field \in StringFields /\ ~IsUtf8(v))
             THEN [ok |-> FALSE, msg |-> m, next |-> 0]
        ELSE [ok |-> TRUE, msg |-> SetField(m, field, v), next |-> after]

TagAndLength(buf, m, t) == ReadField(buf, m, t, DecodeVarint(buf, t.next))

RECURSIVE ParseFields(_, _, _)
RECURSIVE ParseRest(_, _)
ParseFields(buf, pos, m) ==
    IF pos > Len(buf) THEN [ok |-> TRUE, msg |-> m]
    ELSE ParseRest(buf, TagAndLength(buf, m, DecodeVarint(buf, pos)))

ParseRest(buf, r) == IF r.ok THEN ParseFields(buf, r.next, r.msg) ELSE ParseFailed

\* protobuf::core::parse_from_bytes::<structs_proto::Identify>
ParseFromBytes(bytes) == ParseFields(bytes, 1, NewIdentify)

(***************************************************************************)
(* bytes_to_multiaddr and parse_proto_msg.                                 *)
(***************************************************************************)
\* s.parse().map_err(..) of bytes_to_multiaddr.
ParsedOrError(a) ==
    IF a.ok THEN [ok |-> TRUE, addr |-> a.addr, err |-> NoErr]
    ELSE [ok |-> FALSE, addr |-> <<>>, err |-> IoError("InvalidData", "MultiaddrError")]

bytes_to_multiaddr(bytes) ==
    IF ~IsUtf8(bytes)
    THEN [ok |-> FALSE, addr |-> <<>>, err |-> IoError("InvalidData", "FromUtf8Error")]
    ELSE ParsedOrError(ParseAddr(bytes))

\* InfoFromMessage with the two version strings exchanged.
InfoFromMessage_SwappedVersions(m, addrs, observed_addr) ==
    LET bad == {i \in 1..Len(addrs) : ~addrs[i].ok}
        first == CHOOSE i \in bad : \A j \in bad : i <= j
    IN  IF bad # {} THEN [ok |-> FALSE, info |-> NoInfo, err |-> addrs[first].err]
        ELSE IF ~observed_addr.ok
        THEN [ok |-> FALSE, info |-> NoInfo, err |-> observed_addr.err]
        ELSE [ok |-> TRUE,
              info |-> [public_key |-> TakeField(m.publicKey),
                        protocol_version |-> TakeField(m.agentVersion),
                        agent_version |-> TakeField(m.protocolVersion),
                        listen_addrs |-> [i \in 1..Len(addrs) |-> addrs[i].addr],
                        observed_addr |-> observed_addr.addr,
                        protocols |-> m.protocols],
              err |-> NoErr]

\* InfoFromMessage with an observed address that fails to decode replaced by
\* the empty address instead of ending the decoding.
InfoFromMessage_DefaultObserved(m, addrs, observed_addr) ==
    LET bad == {i \in 1..Len(addrs) : ~addrs[i].ok}
        first == CHOOSE i \in bad : \A j \in bad : i <= j
    IN  IF bad # {} THEN [ok |-> FALSE, info |-> NoInfo, err |-> addrs[first].err]
        ELSE [ok |-> TRUE,
              info |-> [public_key |-> TakeField(m.publicKey),
                        protocol_version |-> TakeField(m.protocolVersion),
                        agent_version |-> TakeField(m.agentVersion),
                        listen_addrs |-> [i \in 1..Len(addrs) |-> addrs[i].addr],
                        observed_addr |-> observed_addr.addr,
                        protocols |-> m.protocols],
              err |-> NoErr]

\* InfoFromMessage leaving out the listen addresses that fail to decode
\* instead of ending the decoding.
InfoFromMessage_SkipsBadListen(m, addrs, observed_addr) ==
    LET good == SelectSeq(addrs, LAMBDA a : a.ok)
    IN  IF ~observed_addr.ok
        THEN [ok |-> FALSE, info |-> NoInfo, err |-> observed_addr.err]
        ELSE [ok |-> TRUE,
              info |-> [public_key |-> TakeField(m.publicKey),
                        protocol_version |-> TakeField(m.protocolVersion),
                        agent_version |-> TakeField(m.agentVersion),
                        listen_addrs |-> [i \in 1..Len(good) |-> good[i].addr],
                        observed_addr |-> observed_addr.addr,
                        protocols |-> m.protocols],
              err |-> NoErr]

\* InfoFromMessage putting the name of the field in the error of an observed
\* address that fails to decode.
InfoFromMessage_NamesField(m, addrs, observed_addr) ==
    LET bad == {i \in 1..Len(addrs) : ~addrs[i].ok}
        first == CHOOSE i \in bad : \A j \in bad : i <= j
    IN  IF bad # {} THEN [ok |-> FALSE, info |-> NoInfo, err |-> addrs[first].err]
        ELSE IF ~observed_addr.ok
        THEN [ok |-> FALSE, info |-> NoInfo,
              err |-> IoError(observed_addr.err.kind, "observed_addr")]
        ELSE [ok |-> TRUE,
              info |-> [public_key |-> TakeField(m.publicKey),
                        protocol_version |-> TakeField(m.protocolVersion),
                        agent_version |-> TakeField(m.agentVersion),
                        listen_addrs |-> [i \in 1..Len(addrs) |-> addrs[i].addr],
                        observed_addr |-> observed_addr.addr,
                        protocols |-> m.protocols],
              err |-> NoErr]

\* InfoFromMessage refusing a message that has no observed address.
InfoFromMessage_RequiresObserved(m, addrs, observed_addr) ==
    LET bad == {i \in 1..Len(addrs) : ~addrs[i].ok}
        first == CHOOSE i \in bad : \A j \in bad : i <= j
    IN  IF bad # {} THEN [ok |-> FALSE, info |-> NoInfo, err |-> addrs[first].err]
        ELSE IF ~observed_addr.ok
        THEN [ok |-> FALSE, info |-> NoInfo, err |-> observed_addr.err]
        ELSE IF m.observedAddr = <<>>
        THEN [ok |-> FALSE, info |-> NoInfo, err |-> IoError("InvalidData", "MissingField")]
        ELSE [ok |-> TRUE,
              info |-> [public_key |-> TakeField(m.publicKey),
                        protocol_version |-> TakeField(m.protocolVersion),
                        agent_version |-> TakeField(m.agentVersion),
                        listen_addrs |-> [i \in 1..Len(addrs) |-> addrs[i].addr],
                        observed_addr |-> observed_addr.addr,
                        protocols |-> m.protocols],
              err |-> NoErr]

\* The Ok(mut msg) arm of parse_proto_msg: the listen addresses in order,
\* then the observed address, the first failure ending it; then the
\* IdentifyInfo.
InfoFromMessage(m, addrs, observed_addr) ==
    LET bad == {i \in 1..Len(addrs) : ~addrs[i].ok}
        first == CHOOSE i \in bad : \A j \in bad : i <= j
    IN  IF bad # {} THEN [ok |-> FALSE, info |-> NoInfo, err |-> addrs[first].err]
        ELSE IF ~observed_addr.ok
        THEN [ok |-> FALSE, info |-> NoInfo, err |-> observed_addr.err]
        ELSE [ok |-> TRUE,
              info |-> [public_key |-> TakeField(m.publicKey),
                        protocol_version |-> TakeField(m.protocolVersion),
                        agent_version |-> TakeField(m.agentVersion),
                        listen_addrs |-> [i \in 1..Len(addrs) |-> addrs[i].addr],
                        observed_addr |-> observed_addr.addr,
                        protocols |-> m.protocols],
              err |-> NoErr]

\* MatchParsed reporting a message that does not parse the way it reports an
\* address that does not parse.
MatchParsed_AddressCause(p) ==
    IF p.ok
    THEN InfoFromMessage(p.msg,
                         [i \in 1..Len(p.msg.listenAddrs) |->
                              bytes_to_multiaddr(p.msg.listenAddrs[i])],
                         bytes_to_multiaddr(TakeField(p.msg.observedAddr)))
    ELSE [ok |-> FALSE, info |-> NoInfo, err |-> IoError("InvalidData", "MultiaddrError")]

\* The match of parse_proto_msg on the result of protobuf_parse_from_bytes.
MatchParsed(p) ==
    IF p.ok
    THEN InfoFromMessage(p.msg,
                         [i \in 1..Len(p.msg.listenAddrs) |->
                              bytes_to_multiaddr(p.msg.listenAddrs[i])],
                         bytes_to_multiaddr(TakeField(p.msg.observedAddr)))
    ELSE [ok |-> FALSE, info |-> NoInfo, err |-> IoError("InvalidData", "ProtobufError")]

parse_proto_msg(msg) == MatchParsed(ParseFromBytes(msg))

\* ListenerMessage with the observed address taken from the Listener's own
\* listen addresses.
ListenerMessage_ObservedFromListen(self, remote_addr) ==
    [protocolVersion |-> <<self.protocol_version>>,
     agentVersion |-> <<self.agent_version>>,
     publicKey |-> <<self.public_key>>,
     listenAddrs |-> [i \in 1..Len(self.listen_addrs) |-> AddrToString(self.listen_addrs[i])],
     observedAddr |-> <<AddrToString(IF self.listen_addrs = <<>> THEN remote_addr
                                     ELSE self.listen_addrs[1])>>,
     protocols |-> self.protocols]

\* The Identify message the Listener branch builds from self and remote_addr.
ListenerMessage(self, remote_addr) ==
    [protocolVersion |-> <<self.protocol_version>>,
     agentVersion |-> <<self.agent_version>>,
     publicKey |-> <<self.public_key>>,
     listenAddrs |-> [i \in 1..Len(self.listen_addrs) |-> AddrToString(self.listen_addrs[i])],
     observedAddr |-> <<AddrToString(remote_addr)>>,
     protocols |-> self.protocols]

ListenerBytes(self, remote_addr) == WriteToBytes(ListenerMessage(self, remote_addr))

(***************************************************************************)
(* The inputs of the model: the IdentifyProtocol values and remote_addr    *)
(* arguments a Listener is given, and the byte strings an arbitrary peer   *)
(* sends to a Dialer.                                                      *)
(***************************************************************************)
AddrA == <<<<"ip4", <<5, 6, 7, 8>>>>, <<"tcp", <<12345>>>>>>

AddrB == <<<<"ip4", <<127, 0, 0, 1>>>>, <<"tcp", <<80>>>>>>

AddrC == <<<<"tcp", <<0>>>>>>

AddrD == <<<<"tcp", <<80>>>>>>

\* The IdentifyProtocol of tests::basic.
TestConfig ==
    [public_key |-> <<1, 2, 3, 4>>,
     protocol_version |-> <<105, 112, 102, 115, 47, 49, 46, 48, 46, 48>>,
     agent_version |-> <<97, 103, 101, 110, 116, 47, 118, 101, 114, 115, 105, 111, 110>>,
     listen_addrs |-> <<AddrA>>,
     protocols |-> <<<<112, 105, 110, 103>>, <<107, 97, 100>>>>]

EmptyConfig ==
    [public_key |-> <<>>, protocol_version |-> <<>>, agent_version |-> <<>>,
     listen_addrs |-> <<>>, protocols |-> <<>>]

\* Two listen addresses and two protocols in an order that is not sorted, a
\* two-byte UTF-8 character, an empty protocol name.
MixedConfig ==
    [public_key |-> <<0, 255>>,
     protocol_version |-> <<195, 169>>,
     agent_version |-> <<97>>,
     listen_addrs |-> <<AddrD, AddrC, AddrD>>,
     protocols |-> <<<<122>>, <<>>, <<97>>>>]

Configs == {TestConfig, EmptyConfig, MixedConfig}

RemoteAddrs == {AddrB, AddrC}

\* The IdentifyProtocol and the remote_addr argument a Dialer is given.
DialerArgs == {<<EmptyConfig, AddrC>>, <<TestConfig, AddrB>>}

RawBytes == {0, 1, 2, 34, 128, 255}

TcpText == <<Slash>> \o NameTcp \o <<Slash>> \o <<Digit0 + 8>>

\* Payloads an arbitrary peer frames: a message whose observed address is not
\* UTF-8 (alone, after valid fields, after a valid listen address), one whose
\* listen address is not UTF-8, one whose observed address does not parse,
\* one whose structure is cut after an observed address that is not UTF-8, one
\* with a string field that is not UTF-8, one with an unknown field, and a
\* well-formed one.
CraftedPayloads ==
    { EncodeField(FieldObservedAddr, <<255>>),
      EncodeField(FieldPublicKey, <<7>>) \o EncodeField(FieldObservedAddr, <<195>>)
          \o EncodeField(FieldProtocols, <<97>>),
      EncodeField(FieldListenAddrs, TcpText) \o EncodeField(FieldObservedAddr, <<128>>),
      EncodeField(FieldListenAddrs, <<255>>) \o EncodeField(FieldObservedAddr, TcpText),
      EncodeField(FieldObservedAddr, NameTcp),
      EncodeField(FieldObservedAddr, <<255>>) \o <<10, 5>>,
      EncodeField(FieldProtocolVersion, <<255>>) \o EncodeField(FieldObservedAddr, TcpText),
      <<56, 1>> \o EncodeField(FieldObservedAddr, TcpText),
      EncodeField(FieldObservedAddr, TcpText) }

CraftedStreams ==
    {EncodeFrame(p) : p \in CraftedPayloads}
    \cup {EncodeFrame(EncodeField(FieldObservedAddr, TcpText)) \o <<0>>}

RawStreams == SeqsUpTo(RawBytes, MaxRawLen) \cup CraftedStreams

InboundBytes == {0, 255}

\* The errors a socket returns to a write and to a read.
\* BrokenPipe from the socket; WriteZero from the framed sink when the socket
\* accepts no byte because the stream is closed.
WriteErrors == {IoError("BrokenPipe", "Io"), IoError("WriteZero", "Io")}

ReadErrors == {IoError("ConnectionReset", "Io")}

\* The sizes of one socket read or write when n bytes are there.
Chunks(n) == (1..Min(n, MaxChunk)) \cup (IF n > 0 THEN {n} ELSE {})

(***************************************************************************)
(* IdentifyProtocol::upgrade.                                              *)
(***************************************************************************)
\* ListenerSends sending the announcement twice.
ListenerSends_Twice(self, remote_addr) ==
    <<ListenerBytes(self, remote_addr), ListenerBytes(self, remote_addr)>>

\* The items the Listener branch hands to the framed sink: socket.send(bytes).
ListenerSends(self, remote_addr) == <<ListenerBytes(self, remote_addr)>>

\* ListenerResult of a Listener that goes on to wait for a reply.
ListenerResult_AwaitsReply == Pending

\* What the Listener's future produces once the send has completed.
ListenerResult == OkNone

\* ListenerFailure of a Listener that produces None whatever the send did.
ListenerFailure_IsNone(e) == OkNone

\* What the Listener's future produces when the send has failed: map leaves
\* the error as it is.
ListenerFailure(e) == Err(e)

\* The Dialer's future from what socket.into_future() resolves to: a frame,
\* the end of the stream, or an error of the stream.
\* Ok(Some(r?))
SomeOrErr(r) == IF r.ok THEN OkSome(r.info) ELSE Err(r.err)

\* DialerFuture dropping the frame it has read, as the Listener branch does.
DialerFuture_DropsFrame(item) ==
    CASE item.st = "frame" -> OkNone
      [] item.st = "none" -> OkNone
      [] item.st = "err" -> Err(item.err)

\* DialerFuture taking the end of the stream for an error.
DialerFuture_EofIsError(item) ==
    CASE item.st = "frame" -> SomeOrErr(parse_proto_msg(item.payload))
      [] item.st = "none" -> Err(IoError("UnexpectedEof", "Io"))
      [] item.st = "err" -> Err(item.err)

\* DialerFuture taking an error of the stream for its end.
DialerFuture_ErrorIsNone(item) ==
    CASE item.st = "frame" -> SomeOrErr(parse_proto_msg(item.payload))
      [] item.st = "none" -> OkNone
      [] item.st = "err" -> OkNone

\* DialerFuture never completing when the stream has ended.
DialerFuture_PendingOnEof(item) ==
    CASE item.st = "frame" -> SomeOrErr(parse_proto_msg(item.payload))
      [] item.st = "none" -> Pending
      [] item.st = "err" -> Err(item.err)

\* DialerFuture taking a frame with an empty payload for no frame.
DialerFuture_EmptyIsNone(item) ==
    CASE item.st = "frame" /\ item.payload # <<>> -> SomeOrErr(parse_proto_msg(item.payload))
      [] item.st = "frame" /\ item.payload = <<>> -> OkNone
      [] item.st = "none" -> OkNone
      [] item.st = "err" -> Err(item.err)

DialerFuture(item) ==
    CASE item.st = "frame" -> SomeOrErr(parse_proto_msg(item.payload))
      [] item.st = "none" -> OkNone
      [] item.st = "err" -> Err(item.err)

\* DialerUpgrade putting its remote_addr argument in the IdentifyInfo it has
\* received.
DialerUpgrade_ObservedFromArgument(self, remote_addr, item) ==
    IF DialerFuture(item).tag = "Some"
    THEN OkSome([DialerFuture(item).info EXCEPT !.observed_addr = remote_addr])
    ELSE DialerFuture(item)

\* upgrade(self, socket, _, Endpoint::Dialer, remote_addr): the Dialer arm
\* uses neither self nor remote_addr.
DialerUpgrade(self, remote_addr, item) == DialerFuture(item)

\* AfterFirstItem of a Dialer that keeps polling the stream.
AfterFirstItem_KeepsReading == "reading"

\* into_future() resolves with the first item and the stream is dropped.
AfterFirstItem == "done"

\* AfterError of a Dialer that reads again after an error.
AfterError_Retries == "reading"

\* The Dialer when the stream fails: map_err hands the error on and the
\* future is over.
AfterError == "done"

(***************************************************************************)
(* State.                                                                  *)
(***************************************************************************)
VARIABLES
    lend,         \* the listening end: "Listener" (an upgrade) or "Raw" (any peer)
    dend,         \* the dialing end: "Dialer" (an upgrade) or "Raw" (any peer)
    self,         \* the Listener's IdentifyProtocol
    remote_addr,  \* the remote_addr argument of the Listener's upgrade
    dself,        \* the Dialer's IdentifyProtocol
    dremote_addr, \* the remote_addr argument of the Dialer's upgrade
    lpc,          \* the listening end: "init", "sending", "done"
    lres,         \* the result of the Listener's future
    wbuf,         \* bytes the listening end has still to write
    wire,         \* bytes written by the listening end and not yet read
    wclosed,      \* the listening end has dropped its socket
    sent,         \* every byte the listening end has written
    dpc,          \* the Dialer: "reading", "done"
    dres,         \* the result of the Dialer's future
    rbuf,         \* the read buffer of the Dialer's framed stream
    recv,         \* every byte the Dialer has read
    back,         \* every byte written by the dialing end
    bclosed,      \* the dialing end has dropped its socket
    ops,          \* per upgrade: frames read and written, socket reads and writes
    ioErr         \* per upgrade: the I/O errors its socket has returned

vars == <<lend, dend, self, remote_addr, dself, dremote_addr, lpc, lres, wbuf, wire, wclosed, sent,
          dpc, dres, rbuf, recv, back, bclosed, ops, ioErr>>

NoOps == [frameReads |-> 0, frameWrites |-> 0, sockRead |-> FALSE, sockWrote |-> FALSE]

Init ==
    /\ \E ends \in {<<"Listener", "Dialer">>, <<"Raw", "Dialer">>, <<"Listener", "Raw">>} :
           lend = ends[1] /\ dend = ends[2]
    /\ IF lend = "Listener"
       THEN self \in Configs /\ remote_addr \in RemoteAddrs /\ wbuf = <<>>
       ELSE self = EmptyConfig /\ remote_addr = AddrC /\ wbuf \in RawStreams
    /\ IF dend = "Dialer"
       THEN \E args \in DialerArgs : dself = args[1] /\ dremote_addr = args[2]
       ELSE dself = EmptyConfig /\ dremote_addr = AddrC
    /\ lpc = "init"
    /\ lres = Pending
    /\ wire = <<>>
    /\ wclosed = FALSE
    /\ sent = <<>>
    /\ dpc = "reading"
    /\ dres = Pending
    /\ rbuf = <<>>
    /\ recv = <<>>
    /\ back = <<>>
    /\ bclosed = FALSE
    /\ ops = [i \in {"Listener", "Dialer"} |-> NoOps]
    /\ ioErr = [i \in {"Listener", "Dialer"} |-> {}]

(***************************************************************************)
(* The Listener.                                                           *)
(***************************************************************************)
\* upgrade(.., Endpoint::Listener, remote_addr) and the start of the send:
\* the message is built, serialized and framed into the write buffer.
ListenerStart ==
    /\ lend = "Listener" /\ lpc = "init"
    /\ LET items == ListenerSends(self, remote_addr)
       IN  /\ wbuf' = Concat([i \in 1..Len(items) |-> EncodeFrame(items[i])])
           /\ ops' = [ops EXCEPT !.Listener.frameWrites = @ + Len(items)]
    /\ lpc' = "sending"
    /\ UNCHANGED <<lend, dend, self, remote_addr, dself, dremote_addr, lres, wire, wclosed, sent,
                   dpc, dres, rbuf, recv, back, bclosed, ioErr>>

\* The socket accepts the next k bytes.  When the buffer is empty the send
\* is complete, the future produces its result and the socket is dropped.
ListenerWrite(k) ==
    /\ lend = "Listener" /\ lpc = "sending"
    /\ k \in Chunks(Len(wbuf))
    /\ wire' = wire \o Take(wbuf, k)
    /\ sent' = sent \o Take(wbuf, k)
    /\ wbuf' = Drop(wbuf, k)
    /\ ops' = [ops EXCEPT !.Listener.sockWrote = TRUE]
    /\ IF k = Len(wbuf)
       THEN lres' = ListenerResult /\ lpc' = "done" /\ wclosed' = TRUE
       ELSE UNCHANGED <<lres, lpc, wclosed>>
    /\ UNCHANGED <<lend, dend, self, remote_addr, dself, dremote_addr, dpc, dres, rbuf, recv, back,
                   bclosed, ioErr>>

\* The socket refuses a write: the send fails with the error.
ListenerWriteError(e) ==
    /\ lend = "Listener" /\ lpc = "sending"
    /\ ioErr' = [ioErr EXCEPT !.Listener = @ \cup {e}]
    /\ ops' = [ops EXCEPT !.Listener.sockWrote = TRUE]
    /\ lres' = ListenerFailure(e)
    /\ lpc' = "done"
    /\ wclosed' = TRUE
    /\ UNCHANGED <<lend, dend, self, remote_addr, dself, dremote_addr, wbuf, wire, sent, dpc, dres,
                   rbuf, recv, back, bclosed>>

(***************************************************************************)
(* The Dialer.                                                             *)
(***************************************************************************)
\* The Dialer's future resolves with what the framed stream yielded.
DialerNextPc(item) == IF item.st = "err" THEN AfterError ELSE AfterFirstItem

DialerResolve(item) ==
    /\ dres' = DialerUpgrade(dself, dremote_addr, item)
    /\ dpc' = DialerNextPc(item)
    /\ bclosed' = (DialerNextPc(item) = "done")

\* DialerWaits of a Dialer that takes a stream that is not ready for one that
\* has ended.
DialerWaits_Never(d) == FALSE

\* The stream is not ready, and neither is the future of into_future(): the
\* codec needs more bytes for a frame.
DialerWaits(d) == d.st = "need"

\* What the stream yields to into_future() when it is ready.
DialerItem(d) ==
    CASE d.st = "frame" -> [st |-> "frame", payload |-> d.payload, err |-> NoErr]
      [] d.st = "err" -> [st |-> "err", payload |-> <<>>, err |-> FrameError]
      [] OTHER -> [st |-> "none", payload |-> <<>>, err |-> NoErr]

\* The framed stream after the codec has looked for a frame in the buffer.
DialerDecoded(d) ==
    /\ rbuf' = d.rest
    /\ ops' = [ops EXCEPT !.Dialer.sockRead = TRUE,
                          !.Dialer.frameReads = IF d.st = "frame" THEN @ + 1 ELSE @]
    /\ IF DialerWaits(d)
       THEN UNCHANGED <<dres, dpc, bclosed>>
       ELSE DialerResolve(DialerItem(d))

\* The Dialer is polling its stream and the socket has k bytes for it.
DialerCanRead(k) ==
    /\ dend = "Dialer" /\ dpc = "reading"
    /\ k \in Chunks(Len(wire))

\* The Dialer is polling its stream and the socket is at the end of stream.
DialerAtEof ==
    /\ dend = "Dialer" /\ dpc = "reading"
    /\ wire = <<>> /\ wclosed

\* The socket returns k bytes; the codec looks for a frame in the buffer.
DialerRead(k) ==
    /\ DialerCanRead(k)
    /\ wire' = Drop(wire, k)
    /\ recv' = recv \o Take(wire, k)
    /\ DialerDecoded(DecodeFrame(rbuf \o Take(wire, k)))
    /\ UNCHANGED <<lend, dend, self, remote_addr, dself, dremote_addr, lpc, lres, wbuf, wclosed, sent,
                   back, ioErr>>

\* The socket returns end of stream.
DialerEof ==
    /\ DialerAtEof
    /\ DialerResolve(DecodeEof(rbuf))
    /\ ops' = [ops EXCEPT !.Dialer.sockRead = TRUE]
    /\ UNCHANGED <<lend, dend, self, remote_addr, dself, dremote_addr, lpc, lres, wbuf, wire, wclosed,
                   sent, rbuf, recv, back, ioErr>>

\* The socket returns an error to a read.
DialerReadError(e) ==
    /\ dend = "Dialer" /\ dpc = "reading"
    /\ ioErr' = [ioErr EXCEPT !.Dialer = @ \cup {e}]
    /\ DialerResolve([st |-> "err", payload |-> <<>>, err |-> e])
    /\ ops' = [ops EXCEPT !.Dialer.sockRead = TRUE]
    /\ UNCHANGED <<lend, dend, self, remote_addr, dself, dremote_addr, lpc, lres, wbuf, wire, wclosed,
                   sent, rbuf, recv, back>>

(***************************************************************************)
(* An arbitrary peer at either end.                                        *)
(***************************************************************************)
\* The peer of a Dialer writes the next k bytes of its byte string.
RawWrite(k) ==
    /\ lend = "Raw" /\ ~wclosed
    /\ k \in Chunks(Len(wbuf))
    /\ wire' = wire \o Take(wbuf, k)
    /\ sent' = sent \o Take(wbuf, k)
    /\ wbuf' = Drop(wbuf, k)
    /\ UNCHANGED <<lend, dend, self, remote_addr, dself, dremote_addr, lpc, lres, wclosed, dpc, dres,
                   rbuf, recv, back, bclosed, ops, ioErr>>

\* The peer of a Dialer closes the stream, whatever it has still to write.
RawClose ==
    /\ lend = "Raw" /\ ~wclosed
    /\ wclosed' = TRUE
    /\ UNCHANGED <<lend, dend, self, remote_addr, dself, dremote_addr, lpc, lres, wbuf, wire, sent,
                   dpc, dres, rbuf, recv, back, bclosed, ops, ioErr>>

\* The peer of a Listener writes a byte towards it.
RawBackWrite(b) ==
    /\ dend = "Raw" /\ ~bclosed
    /\ Len(back) < MaxInbound
    /\ back' = Append(back, b)
    /\ UNCHANGED <<lend, dend, self, remote_addr, dself, dremote_addr, lpc, lres, wbuf, wire, wclosed,
                   sent, dpc, dres, rbuf, recv, bclosed, ops, ioErr>>

\* The peer of a Listener closes the stream.
RawBackClose ==
    /\ dend = "Raw" /\ ~bclosed
    /\ bclosed' = TRUE
    /\ UNCHANGED <<lend, dend, self, remote_addr, dself, dremote_addr, lpc, lres, wbuf, wire, wclosed,
                   sent, dpc, dres, rbuf, recv, back, ops, ioErr>>

Next ==
    \/ ListenerStart
    \/ \E k \in Chunks(Len(wbuf)) : ListenerWrite(k)
    \/ \E e \in WriteErrors : ListenerWriteError(e)
    \/ \E k \in Chunks(Len(wire)) : DialerRead(k)
    \/ DialerEof
    \/ \E e \in ReadErrors : DialerReadError(e)
    \/ \E k \in Chunks(Len(wbuf)) : RawWrite(k)
    \/ RawClose
    \/ \E b \in InboundBytes : RawBackWrite(b)
    \/ RawBackClose

Spec == Init /\ [][Next]_vars

\* A stream that goes on: the task that runs a Listener polls it and its
\* socket accepts its bytes in the end; the task that runs a Dialer polls it
\* and its socket delivers in the end the bytes written and the end of the
\* stream; a peer that is no upgrade closes the stream in the end.
Fairness ==
    /\ WF_vars(ListenerStart)
    /\ WF_vars(\E k \in Chunks(Len(wbuf)) : ListenerWrite(k))
    /\ \/ []<>(~\E k \in Chunks(Len(wire)) : DialerCanRead(k))
       \/ []<><<\E k \in Chunks(Len(wire)) : DialerRead(k)>>_vars
    /\ WF_vars(DialerEof)
    /\ WF_vars(RawClose)

FairSpec == Init /\ [][Next]_vars /\ Fairness

(***************************************************************************)
(* The frame codec on its own: a peer writes one frame, of a short payload *)
(* or of a payload around the length where the varint takes a second byte, *)
(* and a Dialer reads it.                                                  *)
(***************************************************************************)
LongPayloadLens == {127, 128}

FramePayloads ==
    SeqsUpTo(InboundBytes, MaxPayloadLen)
    \cup {[i \in 1..n |-> i % 256] : n \in LongPayloadLens}

FrameInit ==
    /\ lend = "Raw" /\ dend = "Dialer"
    /\ self = EmptyConfig /\ remote_addr = AddrC
    /\ dself = EmptyConfig /\ dremote_addr = AddrC
    /\ wbuf \in {EncodeFrame(p) : p \in FramePayloads}
    /\ lpc = "init"
    /\ lres = Pending
    /\ wire = <<>>
    /\ wclosed = FALSE
    /\ sent = <<>>
    /\ dpc = "reading"
    /\ dres = Pending
    /\ rbuf = <<>>
    /\ recv = <<>>
    /\ back = <<>>
    /\ bclosed = FALSE
    /\ ops = [i \in {"Listener", "Dialer"} |-> NoOps]
    /\ ioErr = [i \in {"Listener", "Dialer"} |-> {}]

FrameNext ==
    \/ \E k \in Chunks(Len(wbuf)) : RawWrite(k)
    \/ RawClose
    \/ \E k \in Chunks(Len(wire)) : DialerRead(k)
    \/ DialerEof
    \/ \E e \in ReadErrors : DialerReadError(e)

FrameSpec == FrameInit /\ [][FrameNext]_vars

(***************************************************************************)
(* Properties.                                                             *)
(***************************************************************************)
Pair == lend = "Listener" /\ dend = "Dialer"

NoIoError == ioErr.Listener = {} /\ ioErr.Dialer = {}

\* The error kinds of the exchange, by where the IoError comes from.
IsMalformedFrame(e) == e = FrameError

IsInvalidAddress(e) ==
    e.kind = "InvalidData" /\ e.cause \in {"FromUtf8Error", "MultiaddrError"}

\* The IdentifyInfo that announces self and remote_addr.
Announced ==
    [public_key |-> self.public_key,
     protocol_version |-> self.protocol_version,
     agent_version |-> self.agent_version,
     listen_addrs |-> self.listen_addrs,
     observed_addr |-> remote_addr,
     protocols |-> self.protocols]

\* A step of the exchange that is no failure of a socket is possible.
CanExchange ==
    \/ ENABLED ListenerStart
    \/ ENABLED (\E k \in Chunks(Len(wbuf)) : ListenerWrite(k))
    \/ \E k \in Chunks(Len(wire)) : DialerCanRead(k)
    \/ DialerAtEof

\* C1: with a Listener and a Dialer on the two ends of one stream and no
\* failure of a socket, whatever the interleaving of the writes and the
\* reads: the Dialer's result, once there, is Some(info) with the Listener's
\* public_key, protocol_version and agent_version; the Listener's result,
\* once there, is None; and until both are there a step of the exchange is
\* possible.
C1_PairExchange ==
    (Pair /\ NoIoError) =>
        /\ dres # Pending =>
               /\ dres.tag = "Some"
               /\ dres.info.public_key = self.public_key
               /\ dres.info.protocol_version = self.protocol_version
               /\ dres.info.agent_version = self.agent_version
        /\ lres # Pending => lres = OkNone
        /\ (dres = Pending \/ lres = Pending) => CanExchange

\* tests::basic has run to its end.
C1_Witness ==
    /\ Pair /\ NoIoError
    /\ self = TestConfig
    /\ lres = OkNone
    /\ dres.tag = "Some"
    /\ dres.info.public_key = <<1, 2, 3, 4>>

\* The payload of the frame the Listener has serialized: written or not yet.
SerializedFrame == DecodeFrame(sent \o wbuf)

RoundTrip(x, r) ==
    /\ r.ok
    /\ r.info = x
    /\ Len(r.info.listen_addrs) = Len(x.listen_addrs)
    /\ \A i \in 1..Len(x.listen_addrs) : r.info.listen_addrs[i] = x.listen_addrs[i]
    /\ Len(r.info.protocols) = Len(x.protocols)
    /\ \A i \in 1..Len(x.protocols) : r.info.protocols[i] = x.protocols[i]

\* C2: parse_proto_msg of the bytes the Listener branch serializes for an
\* announcement is Ok of an IdentifyInfo equal to the announcement in every
\* field, listen_addrs and protocols with their lengths and orders.
C2_RoundTrip ==
    (lend = "Listener" /\ lpc # "init") =>
        /\ SerializedFrame.st = "frame"
        /\ SerializedFrame.rest = <<>>
        /\ RoundTrip(Announced, parse_proto_msg(SerializedFrame.payload))

\* An announcement with several listen addresses and protocols, not in
\* sorted order, has been serialized.
C2_Witness ==
    /\ lend = "Listener" /\ lpc # "init"
    /\ self = MixedConfig
    /\ parse_proto_msg(SerializedFrame.payload).info.listen_addrs = <<AddrD, AddrC, AddrD>>

\* C3: a Dialer whose stream is closed before it has read any byte, and whose
\* socket returned no error, completes with Ok(None).
C3_EmptyStreamIsNone ==
    (dend = "Dialer" /\ dres # Pending /\ recv = <<>> /\ ioErr.Dialer = {}) =>
        dres = OkNone

\* The peer has closed the stream at once and the Dialer has completed.
C3_Witness ==
    /\ dend = "Dialer" /\ lend = "Raw"
    /\ sent = <<>> /\ wclosed
    /\ recv = <<>>
    /\ dres = OkNone

\* C4: a Listener never reads; whatever the peer has sent or closed, it can
\* start and it can write while it has bytes to write; and once its one frame
\* is written it has completed with Ok(None).
C4_ListenerNeverWaits ==
    lend = "Listener" =>
        /\ ~ops.Listener.sockRead
        /\ lpc = "init" => ENABLED ListenerStart
        /\ lpc = "sending" => ENABLED (\E k \in Chunks(Len(wbuf)) : ListenerWrite(k))
        /\ (lpc # "init" /\ wbuf = <<>>) =>
               /\ lpc = "done"
               /\ lres = OkNone
               /\ sent = EncodeFrame(ListenerBytes(self, remote_addr))

\* The Listener has completed and its peer has sent nothing and closed
\* nothing.
C4_Witness ==
    /\ lend = "Listener" /\ dend = "Raw"
    /\ back = <<>> /\ ~bclosed
    /\ lres = OkNone

\* C5: an upgrade reads at most one frame and writes at most one frame, never
\* both; a Dialer writes nothing and a Listener reads nothing.
C5_OneReadOrOneWrite ==
    /\ \A i \in {"Listener", "Dialer"} :
           /\ ops[i].frameReads <= 1
           /\ ops[i].frameWrites <= 1
           /\ ~(ops[i].frameReads > 0 /\ ops[i].frameWrites > 0)
           /\ ~(ops[i].sockRead /\ ops[i].sockWrote)
    /\ ops.Dialer.frameWrites = 0 /\ ~ops.Dialer.sockWrote
    /\ ops.Listener.frameReads = 0 /\ ~ops.Listener.sockRead
    /\ dend = "Dialer" => back = <<>>

\* A Listener has written its frame and a Dialer has read it.
C5_Witness ==
    /\ Pair
    /\ ops.Listener.frameWrites = 1 /\ ops.Listener.sockWrote
    /\ ops.Dialer.frameReads = 1 /\ ops.Dialer.sockRead

\* C6: on a connection with a Listener and a Dialer, no byte ever travels from
\* the Dialer to the Listener, the Dialer reads the Listener's bytes in
\* order, and when the Listener has succeeded the bytes it has put on the
\* stream are exactly one frame, the announcement.
C6_OneFrameOneWay ==
    Pair =>
        /\ back = <<>>
        /\ sent = recv \o wire
        /\ lres = OkNone =>
               /\ DecodeFrame(sent).st = "frame"
               /\ DecodeFrame(sent).rest = <<>>
               /\ DecodeFrame(sent).payload = ListenerBytes(self, remote_addr)
        /\ ops.Dialer.frameReads > 0 => (recv = sent /\ lres = OkNone)

\* The Listener has succeeded and the Dialer has read the frame.
C6_Witness ==
    /\ Pair
    /\ lres = OkNone
    /\ ops.Dialer.frameReads = 1
    /\ dres.tag = "Some"

\* C7: the observed_addr of the IdentifyInfo a Dialer receives from a Listener
\* is the remote_addr argument of the Listener's upgrade.
C7_ObservedIsRemoteAddr ==
    (Pair /\ dres.tag = "Some") => dres.info.observed_addr = remote_addr

\* The Dialer has received an observed address that is none of the Listener's
\* listen addresses.
C7_Witness ==
    /\ Pair /\ dres.tag = "Some"
    /\ self.listen_addrs # <<>>
    /\ \A i \in 1..Len(self.listen_addrs) : self.listen_addrs[i] # remote_addr
    /\ dres.info.observed_addr = remote_addr

\* The bytes the Dialer has read end inside a frame.
InsideFrame == recv # <<>> /\ DecodeFrame(recv).st = "need"

\* C8: a Dialer that has completed after reading bytes that end inside a
\* frame (inside the varint, or before the payload is whole), its socket
\* having returned no error, has completed with a MalformedFrame error.
C8_TruncatedFrameIsError ==
    (dend = "Dialer" /\ dres # Pending /\ InsideFrame /\ ioErr.Dialer = {}) =>
        (dres.tag = "Err" /\ IsMalformedFrame(dres.err))

\* The stream has ended inside a varint.
C8_Witness ==
    /\ dend = "Dialer" /\ dres.tag = "Err"
    /\ recv # <<>> /\ DecodeVarint(recv, 1).st = "need"
    /\ ioErr.Dialer = {}

\* The message of the first frame the Dialer has read.
ReceivedMessage == ParseFromBytes(DecodeFrame(recv).payload)

ObservedNotUtf8 ==
    /\ DecodeFrame(recv).st = "frame"
    /\ ReceivedMessage.ok
    /\ ~IsUtf8(TakeField(ReceivedMessage.msg.observedAddr))

\* C9: a Dialer that has read a whole frame holding a message whose observed
\* address is not UTF-8 has completed with an InvalidAddress error.
C9_ObservedNotUtf8IsError ==
    (dend = "Dialer" /\ ObservedNotUtf8) =>
        (dres.tag = "Err" /\ IsInvalidAddress(dres.err))

\* Such a frame has been read, every other field of its message being valid.
C9_Witness ==
    /\ dend = "Dialer" /\ ObservedNotUtf8
    /\ ReceivedMessage.msg.listenAddrs # <<>>
    /\ \A i \in 1..Len(ReceivedMessage.msg.listenAddrs) :
           bytes_to_multiaddr(ReceivedMessage.msg.listenAddrs[i]).ok
    /\ dres = Err(IoError("InvalidData", "FromUtf8Error"))

\* An upgrade that has failed does nothing more on its stream.
FailedIsFinal ==
    /\ dres.tag = "Err" =>
           /\ dres' = dres /\ dpc' = dpc /\ dpc = "done"
           /\ recv' = recv /\ rbuf' = rbuf /\ ops'.Dialer = ops.Dialer
    /\ lres.tag = "Err" =>
           /\ lres' = lres /\ lpc' = lpc /\ lpc = "done"
           /\ sent' = sent /\ wbuf' = wbuf /\ ops'.Listener = ops.Listener

\* An upgrade whose socket has returned an error, or whose frame does not
\* decode, has failed with that error.
FailureIsCarried ==
    /\ \A e \in ioErr.Dialer : dres = Err(e)
    /\ \A e \in ioErr.Listener : lres = Err(e)
    /\ (dend = "Dialer" /\ DecodeFrame(recv).st = "frame"
            /\ ~parse_proto_msg(DecodeFrame(recv).payload).ok) =>
           dres = Err(parse_proto_msg(DecodeFrame(recv).payload).err)

\* C10: an I/O failure or a decode failure ends the upgrade with that error,
\* and a failed upgrade reads nothing more, writes nothing more and keeps its
\* result.
C10_FailureIsTerminal == []FailureIsCarried /\ [][FailedIsFinal]_vars

\* The Dialer has failed on an error of its socket while bytes it could read
\* were there.
C10_Witness ==
    /\ dend = "Dialer"
    /\ ioErr.Dialer # {}
    /\ dres.tag = "Err"
    /\ wire # <<>>

\* The Dialer has read a whole frame.
ReceivedFrame == dend = "Dialer" /\ DecodeFrame(recv).st = "frame"

\* The listen addresses and the observed address of the received message,
\* each decoded on its own.
ListenDecoded ==
    [i \in 1..Len(ReceivedMessage.msg.listenAddrs) |->
         bytes_to_multiaddr(ReceivedMessage.msg.listenAddrs[i])]

ObservedDecoded == bytes_to_multiaddr(TakeField(ReceivedMessage.msg.observedAddr))

AddressFails ==
    \/ \E i \in 1..Len(ListenDecoded) : ~ListenDecoded[i].ok
    \/ ~ObservedDecoded.ok

\* C11: a Dialer that has read a frame whose message is corrupt, or in which
\* one listen address or the observed address does not decode, has failed
\* and holds no IdentifyInfo, whatever the other fields; and the IdentifyInfo
\* of a Dialer that has succeeded is whole: every listen address of the
\* message and its observed address, decoded.
C11_NoPartialInfo ==
    /\ (ReceivedFrame /\ (~ReceivedMessage.ok \/ AddressFails)) =>
           (dres.tag = "Err" /\ dres.info = NoInfo)
    /\ (dend = "Dialer" /\ dres.tag = "Some") =>
           /\ ReceivedFrame /\ ReceivedMessage.ok /\ ~AddressFails
           /\ Len(dres.info.listen_addrs) = Len(ReceivedMessage.msg.listenAddrs)
           /\ \A i \in 1..Len(ListenDecoded) :
                  dres.info.listen_addrs[i] = ListenDecoded[i].addr
           /\ dres.info.observed_addr = ObservedDecoded.addr

\* One listen address of the message does not decode and everything else
\* does.
C11_Witness ==
    /\ ReceivedFrame /\ ReceivedMessage.ok
    /\ \E i \in 1..Len(ListenDecoded) : ~ListenDecoded[i].ok
    /\ ObservedDecoded.ok
    /\ dres.tag = "Err"

IsMalformedMessage(e) == e.kind = "InvalidData" /\ e.cause = "ProtobufError"

\* The bytes of the first address of the received message that does not
\* decode: a listen address, or else the observed address.
OffendingBytes ==
    LET bad == {i \in 1..Len(ListenDecoded) : ~ListenDecoded[i].ok}
    IN  IF bad # {}
        THEN ReceivedMessage.msg.listenAddrs[CHOOSE i \in bad : \A j \in bad : i <= j]
        ELSE TakeField(ReceivedMessage.msg.observedAddr)

\* C12: a Dialer that has read a frame whose message does not parse has
\* failed with the data-corruption error, and one whose message parses but
\* holds an address that is not UTF-8 or does not parse has failed with an
\* address error whose cause is the UTF-8 error or the address parse error;
\* the two are never the same error.
C12_DistinctFailures ==
    ReceivedFrame =>
        /\ ~ReceivedMessage.ok =>
               /\ dres.tag = "Err"
               /\ IsMalformedMessage(dres.err) /\ ~IsInvalidAddress(dres.err)
        /\ (ReceivedMessage.ok /\ AddressFails) =>
               /\ dres.tag = "Err"
               /\ IsInvalidAddress(dres.err) /\ ~IsMalformedMessage(dres.err)
               /\ dres.err.cause = IF IsUtf8(OffendingBytes) THEN "MultiaddrError"
                                   ELSE "FromUtf8Error"

\* A message cut short after an observed address that is not UTF-8 has been
\* read: the failure is the data corruption.
C12_Witness ==
    /\ ReceivedFrame
    /\ DecodeFrame(recv).payload = EncodeField(FieldObservedAddr, <<255>>) \o <<10, 5>>
    /\ dres.tag = "Err" /\ IsMalformedMessage(dres.err)

\* The offending address is a listen address.
OffendingIsListen == \E i \in 1..Len(ListenDecoded) : ~ListenDecoded[i].ok

\* The error of decoding a message that holds the offending bytes as the other
\* kind of address field: the observed address for a listen address, a listen
\* address for the observed address.
ErrorInOtherField ==
    parse_proto_msg(EncodeField(IF OffendingIsListen THEN FieldObservedAddr
                                ELSE FieldListenAddrs,
                                OffendingBytes)).err

\* C13 as claimed: the error of a Dialer that has read a message with an
\* address that does not decode names the field, so it is not the error the
\* same bytes give in the other kind of address field.
C13_ErrorNamesField ==
    (ReceivedFrame /\ ReceivedMessage.ok /\ AddressFails) =>
        (dres.tag = "Err" /\ dres.err # ErrorInOtherField)

\* C13, amended: the error of a Dialer that has read a message with an
\* address that does not decode is the error of decoding the bytes of the
\* first such address (the listen addresses in order, then the observed
\* address), with its underlying cause and nothing else: the same bytes give
\* the same error in a listen address and in the observed address.
C13_ErrorCarriesCauseOnly ==
    (ReceivedFrame /\ ReceivedMessage.ok /\ AddressFails) =>
        /\ dres = Err(bytes_to_multiaddr(OffendingBytes).err)
        /\ dres.err.kind = "InvalidData"
        /\ dres.err.cause \in {"FromUtf8Error", "MultiaddrError"}
        /\ dres.err = ErrorInOtherField

\* An observed address that is UTF-8 and does not parse has been read, the
\* listen addresses being valid.
C13_Witness ==
    /\ ReceivedFrame /\ ReceivedMessage.ok
    /\ ~OffendingIsListen
    /\ OffendingBytes = NameTcp
    /\ dres = Err(IoError("InvalidData", "MultiaddrError"))

\* An address that is present in the received message does not decode.
PresentAddressFails ==
    \/ OffendingIsListen
    \/ ReceivedMessage.msg.observedAddr # <<>> /\ ~ObservedDecoded.ok

\* C14: a Dialer that has read a frame whose message parses, and whose
\* addresses that are present decode, has succeeded; and in its IdentifyInfo
\* every field absent from the message is empty: the empty bytes, the empty
\* string, the empty list, the empty address.
C14_AbsentIsDefault ==
    (ReceivedFrame /\ ReceivedMessage.ok /\ ~PresentAddressFails) =>
        /\ dres.tag = "Some"
        /\ ReceivedMessage.msg.publicKey = <<>> => dres.info.public_key = <<>>
        /\ ReceivedMessage.msg.protocolVersion = <<>> => dres.info.protocol_version = <<>>
        /\ ReceivedMessage.msg.agentVersion = <<>> => dres.info.agent_version = <<>>
        /\ ReceivedMessage.msg.listenAddrs = <<>> => dres.info.listen_addrs = <<>>
        /\ ReceivedMessage.msg.observedAddr = <<>> => dres.info.observed_addr = <<>>
        /\ ReceivedMessage.msg.protocols = <<>> => dres.info.protocols = <<>>

\* A message without an observed address has been decoded.
C14_Witness ==
    /\ ReceivedFrame /\ ReceivedMessage.ok
    /\ ReceivedMessage.msg.observedAddr = <<>>
    /\ dres.tag = "Some"
    /\ dres.info.observed_addr = <<>>

\* The Dialer's socket has not reached the end of the stream.
StreamOpen == ~(wclosed /\ wire = <<>>)

\* C15: while what a Dialer has read is only the beginning of a frame (a
\* part of the varint, or the varint and a part of the payload), its socket
\* having returned no error and not being at the end of the stream, the
\* Dialer has no result, has read no frame and keeps the bytes in its buffer,
\* however they were cut into reads.
C15_PartialFrameIsPending ==
    (dend = "Dialer" /\ DecodeFrame(recv).st = "need" /\ ioErr.Dialer = {}
         /\ StreamOpen) =>
        /\ dres = Pending
        /\ dpc = "reading"
        /\ ops.Dialer.frameReads = 0
        /\ rbuf = recv

\* The Dialer has read the whole varint of a Listener's frame and a part of
\* its payload.
C15_Witness ==
    /\ Pair /\ ops.Dialer.sockRead
    /\ DecodeVarint(recv, 1).st = "ok"
    /\ Len(recv) > DecodeVarint(recv, 1).next
    /\ DecodeFrame(recv).st = "need"
    /\ dres = Pending

\* The terminal outcomes of the two roles.
ListenerOutcome ==
    CASE lres = OkNone -> "Sent"
      [] lres.tag = "Err" -> "Failed"
      [] OTHER -> "None"

DialerOutcome ==
    CASE dres = OkNone -> "Closed"
      [] dres.tag = "Some" -> "Received"
      [] dres.tag = "Err" -> "Failed"
      [] OTHER -> "None"

\* An upgrade has an outcome exactly when it has stopped, and then it is one
\* of the outcomes of its role.
OutcomeWhenStopped ==
    /\ lend = "Listener" =>
           /\ lpc = "done" <=> lres # Pending
           /\ lres # Pending => ListenerOutcome \in {"Sent", "Failed"}
    /\ dend = "Dialer" =>
           /\ dpc = "done" <=> dres # Pending
           /\ dres # Pending => DialerOutcome \in {"Closed", "Received", "Failed"}

\* An upgrade that has its outcome keeps it and does nothing more.
OutcomeIsFinal ==
    /\ lres # Pending =>
           /\ lres' = lres /\ lpc' = lpc
           /\ sent' = sent /\ wbuf' = wbuf /\ ops'.Listener = ops.Listener
    /\ dres # Pending =>
           /\ dres' = dres /\ dpc' = dpc
           /\ recv' = recv /\ rbuf' = rbuf /\ ops'.Dialer = ops.Dialer

AllStopped ==
    /\ lend = "Listener" => lpc = "done" /\ lres # Pending
    /\ dend = "Dialer" => dpc = "done" /\ dres # Pending

\* C16: an upgrade has one outcome, Sent or Failed for a Listener, Closed,
\* Received or Failed for a Dialer, exactly when it has stopped, and keeps it;
\* and on a stream that goes on every upgrade reaches its outcome.
C16_OneTerminalOutcome ==
    /\ []OutcomeWhenStopped
    /\ [][OutcomeIsFinal]_vars
    /\ <>[]AllStopped

\* A Listener has failed in the middle of its frame and the Dialer has
\* failed on the truncated frame.
C16_Witness ==
    /\ Pair
    /\ ListenerOutcome = "Failed"
    /\ DialerOutcome = "Failed" /\ dres.err = FrameError
    /\ dpc = "done" /\ lpc = "done"

\* C17: the bytes of the frame written for a payload p, the empty one
\* included, decode to one frame whose payload is p with nothing left; a
\* Dialer that has read them all has read one frame and has the result of
\* decoding p, and one that has read fewer has read no frame.
C17_FrameRoundTrip ==
    \A p \in FramePayloads :
        (sent \o wbuf = EncodeFrame(p)) =>
            /\ DecodeFrame(EncodeFrame(p)).st = "frame"
            /\ DecodeFrame(EncodeFrame(p)).payload = p
            /\ DecodeFrame(EncodeFrame(p)).rest = <<>>
            /\ recv = EncodeFrame(p) =>
                   /\ ops.Dialer.frameReads = 1
                   /\ rbuf = <<>>
                   /\ dres = SomeOrErr(parse_proto_msg(p))
            /\ Len(recv) < Len(EncodeFrame(p)) => ops.Dialer.frameReads = 0

\* A frame whose varint has two bytes has been written and read.
C17_Witness ==
    /\ Len(recv) > 128
    /\ DecodeVarint(recv, 1).next = 3
    /\ ops.Dialer.frameReads = 1
    /\ wire = <<>> /\ wbuf = <<>> /\ ~wclosed

\* C18: a Listener whose result is None has had its whole frame, and nothing
\* else, accepted by its socket without an error; a Listener whose socket
\* has returned an error to a write, or has accepted no byte because the
\* stream is closed, has that I/O error as its result; and a Listener that
\* has stopped before its whole frame was written has failed.
C18_NoneOnlyAfterWholeFrame ==
    lend = "Listener" =>
        /\ lres = OkNone =>
               /\ wbuf = <<>>
               /\ sent = EncodeFrame(ListenerBytes(self, remote_addr))
               /\ ioErr.Listener = {}
        /\ ioErr.Listener # {} =>
               /\ lres.tag = "Err"
               /\ ioErr.Listener = {lres.err}
               /\ lres.err \in WriteErrors
        /\ (lres # Pending /\ sent # EncodeFrame(ListenerBytes(self, remote_addr))) =>
               lres.tag = "Err"

\* The stream was closed when a part of the frame had been written.
C18_Witness ==
    /\ lend = "Listener"
    /\ sent # <<>> /\ wbuf # <<>>
    /\ lres = Err(IoError("WriteZero", "Io"))

\* C19: a Dialer whose result is None has read no byte and no frame, its
\* socket being at the end of the stream without an error; a Dialer that has
\* stopped without reading a byte and without an error has the result None;
\* and a Dialer that has read a whole frame, even one with an empty payload,
\* has an IdentifyInfo or an error.
C19_NoneIffClosedEmpty ==
    dend = "Dialer" =>
        /\ dres = OkNone =>
               /\ recv = <<>> /\ ~StreamOpen
               /\ ops.Dialer.frameReads = 0
               /\ ioErr.Dialer = {}
        /\ (dres # Pending /\ recv = <<>> /\ ioErr.Dialer = {}) => dres = OkNone
        /\ (ops.Dialer.frameReads > 0 \/ ReceivedFrame) => dres.tag \in {"Some", "Err"}

\* A frame with an empty payload has been read.
C19_Witness ==
    /\ dend = "Dialer"
    /\ recv = EncodeFrame(<<>>)
    /\ ops.Dialer.frameReads = 1
    /\ dres.tag = "Some"

\* The result of a Dialer that has stopped, from the bytes it has read and
\* the error its socket has returned, if any.
ResultOfBytes ==
    IF ioErr.Dialer # {} THEN Err(CHOOSE e \in ioErr.Dialer : TRUE)
    ELSE IF DecodeFrame(recv).st = "frame"
    THEN SomeOrErr(parse_proto_msg(DecodeFrame(recv).payload))
    ELSE IF recv = <<>> THEN OkNone
    ELSE Err(FrameError)

\* C20: the result of a Dialer that has stopped is a function of the bytes it
\* has read and of the error of its socket, whatever its own IdentifyProtocol
\* and remote_addr argument; and the bytes a Listener writes are the frame of
\* its announcement, whatever its peer has sent or closed.
C20_ResultFromBytesAlone ==
    /\ (dend = "Dialer" /\ dres # Pending) => dres = ResultOfBytes
    /\ (lend = "Listener" /\ lpc # "init") =>
           sent \o wbuf = EncodeFrame(ListenerBytes(self, remote_addr))

\* A Dialer with a public key and a remote_addr argument of its own has
\* received an IdentifyInfo that has neither.
C20_Witness ==
    /\ dend = "Dialer" /\ dself = TestConfig
    /\ dres.tag = "Some"
    /\ dres.info.public_key # dself.public_key
    /\ dres.info.observed_addr # dremote_addr

====
